---- MODULE Spec2Model ----
(***************************************************************************)
(* The episode renamer of plex-scripts: main() matches the .mkv files      *)
(* found under a directory to the episodes of a TVDB series and renames    *)
(* them.  Strings are sequences of one-character strings, so that the      *)
(* regular expressions, basename, includes and the Levenshtein distance    *)
(* are computed as the code computes them.                                 *)
(***************************************************************************)
EXTENDS Integers, Sequences, FiniteSets, TLC

\* ------------------------------------------------------------ bounds
\* Longest episode list the catalog returns in the model.
MaxEpisodes == 2

\* ------------------------------------------------------------ characters
UpperSeq == <<"A", "B", "C", "D", "E", "F", "G", "H", "I", "J", "K", "L", "M", "N", "O", "P", "Q", "R", "S", "T", "U", "V", "W", "X", "Y", "Z">>
LowerSeq == <<"a", "b", "c", "d", "e", "f", "g", "h", "i", "j", "k", "l", "m", "n", "o", "p", "q", "r", "s", "t", "u", "v", "w", "x", "y", "z">>
DigitSeq == <<"0", "1", "2", "3", "4", "5", "6", "7", "8", "9">>
Upper == {UpperSeq[i] : i \in 1..Len(UpperSeq)}
Lower == {LowerSeq[i] : i \in 1..Len(LowerSeq)}
Digit == {DigitSeq[i] : i \in 1..Len(DigitSeq)}
\* \s of a JavaScript regular expression, as far as the model's strings go.
Whitespace == {" ", "\t"}

\* String.prototype.toLowerCase on one character.
ToLowerChar(c) ==
    IF c \in Upper
    THEN LowerSeq[CHOOSE i \in 1..Len(UpperSeq) : UpperSeq[i] = c]
    ELSE c

ToLowerCase(s) == [i \in 1..Len(s) |-> ToLowerChar(s[i])]

\* s.replace(/[^a-zA-Z0-9]/g, '')
IsAlnum(c) == c \in Upper \cup Lower \cup Digit
\* A replace without the g flag: only the first match goes.
StripFirstNonAlnum(s) ==
    LET bad == {i \in 1..Len(s) : ~IsAlnum(s[i])}
    IN IF bad = {} THEN s
       ELSE LET first == CHOOSE i \in bad : \A j \in bad : i <= j
            IN SubSeq(s, 1, first - 1) \o SubSeq(s, first + 1, Len(s))
StripNonAlnum(s) == SelectSeq(s, IsAlnum)

\* s.replace(/[^a-zA-Z0-9]/g, '').toLowerCase()
Simplify(s) == ToLowerCase(StripNonAlnum(s))

\* s.replace(/[^a-zA-Z0-9\s-]/g, '')
IsFileNameChar(c) == IsAlnum(c) \/ c \in Whitespace \/ c = "-"
StripFileName(s) == SelectSeq(s, IsFileNameChar)

\* String.prototype.endsWith / startsWith / includes
EndsWith(s, suffix) ==
    /\ Len(suffix) <= Len(s)
    /\ SubSeq(s, Len(s) - Len(suffix) + 1, Len(s)) = suffix
StartsWith(s, prefix) ==
    /\ Len(prefix) <= Len(s)
    /\ SubSeq(s, 1, Len(prefix)) = prefix
Includes(s, part) ==
    \E k \in 0..(Len(s) - Len(part)) : SubSeq(s, k + 1, k + Len(part)) = part

\* ------------------------------------------------------------ strings
ExtMkv == <<".", "m", "k", "v">>
StrShow == <<"S", "h", "o", "w">>
StrPilot == <<"P", "i", "l", "o", "t">>
StrSecond == <<"S", "e", "c", "o", "n", "d">>
NamePilotMkv == <<"P", "i", "l", "o", "t", ".", "m", "k", "v">>
NamePilotBangMkv == <<"P", "i", "l", "o", "t", "!", ".", "m", "k", "v">>
NamePilotsMkv == <<"P", "i", "l", "o", "t", "s", ".", "m", "k", "v">>
NameSecondMkv == <<"S", "e", "c", "o", "n", "d", ".", "m", "k", "v">>
NameShowE01 == <<"S", "h", "o", "w", " ", "S", "0", "1", "E", "0", "1", " ", "P", "i", "l", "o", "t", ".", "m", "k", "v">>
NameShowE02 == <<"S", "h", "o", "w", " ", "S", "0", "1", "E", "0", "2", " ", "S", "e", "c", "o", "n", "d", ".", "m", "k", "v">>
NameNotesTxt == <<"n", "o", "t", "e", "s", ".", "t", "x", "t">>

\* ------------------------------------------------------------ levenshtein.ts
\* A minimum that forgets its third argument, the substitution.
Min3Two(a, b, c) == IF a <= b THEN a ELSE b

Min3(a, b, c) == IF a <= b /\ a <= c THEN a ELSE IF b <= c THEN b ELSE c
Abs(x) == IF x < 0 THEN -x ELSE x

\* The inner loop over the columns j..n of row i, writing currentRow in place.
RECURSIVE FillRow(_, _, _, _, _, _)
FillRow(s1, s2, i, j, prevRow, currentRow) ==
    IF j > Len(s2)
    THEN currentRow
    ELSE LET cost == IF s1[i] = s2[j] THEN 0 ELSE 1
             cell == Min3(currentRow[j - 1] + 1, prevRow[j] + 1, prevRow[j - 1] + cost)
         IN FillRow(s1, s2, i, j + 1, prevRow, [currentRow EXCEPT ![j] = cell])

\* The outer loop over the rows i..m; the two rows are swapped after each row.
RECURSIVE RowLoop(_, _, _, _, _)
RowLoop(s1, s2, i, prevRow, currentRow) ==
    IF i > Len(s1)
    THEN prevRow[Len(s2)]
    ELSE LET filled == FillRow(s1, s2, i, 1, prevRow, [currentRow EXCEPT ![0] = i])
         IN RowLoop(s1, s2, i + 1, filled, prevRow)

\* The early returns with the wrong length: n for an empty s2, m for an empty s1.
calculateLevenshteinDistanceEmptyS2(s1, s2) ==
    IF Len(s1) = 0 THEN Len(s2)
    ELSE IF Len(s2) = 0 THEN Len(s2)
    ELSE RowLoop(s1, s2, 1, [j \in 0..Len(s2) |-> j], [j \in 0..Len(s2) |-> -1])
calculateLevenshteinDistanceEmptyS1(s1, s2) ==
    IF Len(s1) = 0 THEN Len(s1)
    ELSE IF Len(s2) = 0 THEN Len(s1)
    ELSE RowLoop(s1, s2, 1, [j \in 0..Len(s2) |-> j], [j \in 0..Len(s2) |-> -1])

calculateLevenshteinDistance(s1, s2) ==
    IF Len(s1) = 0 THEN Len(s2)
    ELSE IF Len(s2) = 0 THEN Len(s1)
    ELSE RowLoop(s1, s2, 1, [j \in 0..Len(s2) |-> j], [j \in 0..Len(s2) |-> -1])

\* The equality test ahead of the test of maxDistance, and a length test that
\* is off by one.
isDistanceLessThanEqualFirst(str1, str2, maxDistance) ==
    IF str1 = str2 THEN TRUE
    ELSE IF maxDistance <= 0 THEN FALSE
    ELSE IF Abs(Len(str1) - Len(str2)) >= maxDistance THEN FALSE
    ELSE calculateLevenshteinDistance(str1, str2) < maxDistance
isDistanceLessThanTightLength(str1, str2, maxDistance) ==
    IF maxDistance <= 0 THEN FALSE
    ELSE IF str1 = str2 THEN TRUE
    ELSE IF Abs(Len(str1) - Len(str2)) >= maxDistance - 1 THEN FALSE
    ELSE calculateLevenshteinDistance(str1, str2) < maxDistance

isDistanceLessThan(str1, str2, maxDistance) ==
    IF maxDistance <= 0 THEN FALSE
    ELSE IF str1 = str2 THEN TRUE
    ELSE IF Abs(Len(str1) - Len(str2)) >= maxDistance THEN FALSE
    ELSE calculateLevenshteinDistance(str1, str2) < maxDistance

\* ------------------------------------------------------------ paths and the file system
\* A path is its directory (the names below the target directory) and its
\* file name.
Path(dir, name) == [dir |-> dir, name |-> name]

\* A basename that leaves the extension on.
BasenameKeepsExtension(file, ext) == file.name

\* path.basename(file, ext)
Basename(file, ext) ==
    IF EndsWith(file.name, ext)
    THEN SubSeq(file.name, 1, Len(file.name) - Len(ext))
    ELSE file.name

\* path.dirname(file)
Dirname(file) == file.dir

FileEntry(name) == [kind |-> "file", name |-> name, entries |-> <<>>]
DirEntry(name, entries) == [kind |-> "dir", name |-> name, entries |-> entries]

\* Every file below a directory, whatever its extension, in the order of a walk.
RECURSIVE AllFiles(_, _)
AllFiles(directory, entries) ==
    IF entries = <<>> THEN <<>>
    ELSE LET entry == Head(entries)
         IN (IF entry.kind = "dir"
             THEN AllFiles(Append(directory, entry.name), entry.entries)
             ELSE <<Path(directory, entry.name)>>)
            \o AllFiles(directory, Tail(entries))

Range(seq) == {seq[i] : i \in 1..Len(seq)}

\* The file system at the start: each path holds its own content, named by the
\* position of the file in the walk.
InitialFiles(entries) ==
    LET walk == AllFiles(<<>>, entries)
    IN [p \in Range(walk) |-> CHOOSE i \in 1..Len(walk) : walk[i] = p]

\* fs.renameSync: the destination is replaced when it exists.
RenameSync(files, oldPath, newPath) ==
    [p \in (DOMAIN files \ {oldPath}) \cup {newPath} |->
        IF p = newPath THEN files[oldPath] ELSE files[p]]

\* ------------------------------------------------------------ collect-mkv-files.function.ts
IsCollected(name, showName) == EndsWith(name, ExtMkv) /\ ~StartsWith(name, showName)

RECURSIVE collectMkvFiles(_, _, _)
collectMkvFiles(directory, entries, showName) ==
    IF entries = <<>> THEN <<>>
    ELSE LET entry == Head(entries)
             here == IF entry.kind = "dir"
                     THEN collectMkvFiles(Append(directory, entry.name), entry.entries, showName)
                     ELSE IF IsCollected(entry.name, showName)
                          THEN <<Path(directory, entry.name)>>
                          ELSE <<>>
         IN here \o collectMkvFiles(directory, Tail(entries), showName)

\* ------------------------------------------------------------ inputs
NameExtras == <<"E", "x", "t", "r", "a", "s">>

\* The entries a target directory may hold, in the order readdirSync lists them.
Universe ==
    << DirEntry(NameExtras, <<FileEntry(NamePilotMkv)>>),
       FileEntry(NamePilotBangMkv),
       FileEntry(NamePilotMkv),
       FileEntry(NamePilotsMkv),
       FileEntry(NameSecondMkv),
       FileEntry(NameShowE01),
       FileEntry(NameShowE02),
       FileEntry(NameNotesTxt) >>

RECURSIVE PickEntries(_, _)
PickEntries(i, present) ==
    IF i > Len(Universe) THEN <<>>
    ELSE (IF i \in present THEN <<Universe[i]>> ELSE <<>>) \o PickEntries(i + 1, present)

\* Which entries of Universe a directory holds: the two already renamed files
\* come together, and notes.txt is always there.
Presents == {s \cup {8} : s \in {t \in SUBSET (1..7) : (6 \in t) <=> (7 \in t)}}

\* An episode name is absent (<<>>) or a string (<<s>>), which may be empty.
Absent == <<>>
Some(s) == <<s>>
EpisodeNames == {Absent, Some(<<>>), Some(StrPilot), Some(StrSecond)}
EpisodeNumbers == {1, 2}
Episodes == [seasonNumber : {1}, number : EpisodeNumbers, name : EpisodeNames]
\* getSeriesEpisodes returns the episodes of a season by ascending number.
IsSorted(list) == \A i \in 1..(Len(list) - 1) : list[i].number <= list[i + 1].number
EpisodeLists == {list \in UNION {[1..n -> Episodes] : n \in 0..MaxEpisodes} : IsSorted(list)}
SeriesNames == {StrShow}

\* ------------------------------------------------------------ rename-episodes main()
VARIABLES
    pc,                     \* where main() is: at an await, done or failed
    isTestRun,              \* process.argv.includes('--test-run')
    dirExists,              \* fs.existsSync(directory)
    present,                \* which entries the target directory holds at the start
    files,                  \* the file system: path |-> the content it holds
    series,                 \* series.name
    filePaths,              \* the pool
    episodes,               \* what getSeriesEpisodes returned
    idx,                    \* the position of the for loop in episodes
    choices,                \* the files of the question that is outstanding
    episodesWithNoMatches,
    exitCode,
    candidates,             \* history: every candidate set computed
    questions,              \* history: every question put to the chooser
    answers,                \* history: the answer to each question
    matched,                \* history: episode, file and new path of each match
    renames                 \* history: every renameSync performed

\* The arguments and results of the string functions, when they are run on
\* their own, and the state of TVDBController.getSeriesEpisodes.
VARIABLES
    fpc,                    \* which of the string functions have been applied
    strA,                   \* the first string argument
    strB,                   \* the second string argument
    num,                    \* the number argument
    out,                    \* the results so far, by name
    cpc,                    \* where getSeriesEpisodes is
    remote,                 \* the pages the catalog serves for the series
    page,                   \* the page counter of the fetch loop
    fetched,                \* the episodes array of the fetch loop
    cache,                  \* ./cache/series.<id>.episodes.json, when it exists
    returned                \* what each completed call returned

\* The outcome of a test run, kept for the run that follows it, and the state
\* of a TVDBController with the requests made of it.
VARIABLES
    predicted,              \* what the test run asked, matched and left over
    storedToken,            \* this._token
    reqs,                   \* each request: where it is and the token it uses
    logins                  \* how many login requests have been sent

mainVars == <<pc, isTestRun, dirExists, present, files, series, filePaths, episodes, idx,
              choices, episodesWithNoMatches, exitCode, candidates, questions,
              answers, matched, renames>>
textVars == <<fpc, strA, strB, num, out>>
ctrlVars == <<cpc, remote, page, fetched, cache, returned>>
pairVars == <<predicted>>
authVars == <<storedToken, reqs, logins>>
restVars == <<pairVars, authVars>>
otherVars == <<textVars, ctrlVars, restVars>>
vars == <<mainVars, textVars, ctrlVars, restVars>>

\* The parts of the state a specification does not use stay as they are here.
TextIdle == fpc = "idle" /\ strA = <<>> /\ strB = <<>> /\ num = 0 /\ out = <<>>
CtrlIdle ==
    /\ cpc = "idle"
    /\ remote = <<>>
    /\ page = 0
    /\ fetched = <<>>
    /\ cache = <<>>
    /\ returned = <<>>
PairIdle == predicted = <<>>
AuthIdle == storedToken = <<>> /\ reqs = <<>> /\ logins = 0
RestIdle == PairIdle /\ AuthIdle
MainIdle ==
    /\ pc = "idle"
    /\ isTestRun = FALSE
    /\ dirExists = FALSE
    /\ present = {}
    /\ files = <<>>
    /\ series = <<>>
    /\ filePaths = <<>>
    /\ episodes = <<>>
    /\ idx = 1
    /\ choices = <<>>
    /\ episodesWithNoMatches = <<>>
    /\ exitCode = -1
    /\ candidates = <<>>
    /\ questions = <<>>
    /\ answers = <<>>
    /\ matched = <<>>
    /\ renames = <<>>

\* What readdirSync lists for the target directory when the run starts.
listing == PickEntries(1, present)

\* The pool as collectMKVFiles(directory, series.name) returned it.
pool0 == collectMkvFiles(<<>>, listing, series)

\* The similarity threshold main() passes to isDistanceLessThan.
MaxDistance == 3

RECURSIVE DecimalDigits(_)
DecimalDigits(n) ==
    IF n < 10 THEN <<DigitSeq[n + 1]>>
    ELSE DecimalDigits(n \div 10) \o <<DigitSeq[(n % 10) + 1]>>

\* A toLocaleString without minimumIntegerDigits.
ToLocaleStringPlain(n) == DecimalDigits(n)

\* n.toLocaleString(undefined, {minimumIntegerDigits: 2}), below the first
\* grouping separator.
ToLocaleString2(n) == IF n < 10 THEN <<"0">> \o DecimalDigits(n) ELSE DecimalDigits(n)

\* A test for null that lets the empty string through.
HasNoNameOnlyNull(episode) == episode.name = Absent

\* !episode.name
HasNoName(episode) == episode.name = Absent \/ episode.name[1] = <<>>

properEpisodeName(seriesName, episode) ==
    seriesName \o <<" ", "S">> \o ToLocaleString2(episode.seasonNumber)
        \o <<"E">> \o ToLocaleString2(episode.number) \o <<" ">> \o episode.name[1]

episodeNameSimplified(episode) == Simplify(episode.name[1])

fileNameSimplified(file) == Simplify(Basename(file, ExtMkv))

IsExactMatch(file, episode) == fileNameSimplified(file) = episodeNameSimplified(episode)

\* A find for the filter: the first exact file only.
exactMatchesFirst(pool, episode) ==
    LET all == SelectSeq(pool, LAMBDA file : IsExactMatch(file, episode))
    IN IF all = <<>> THEN <<>> ELSE <<all[1]>>

exactMatches(pool, episode) ==
    SelectSeq(pool, LAMBDA file : IsExactMatch(file, episode))

\* A similarity test by distance alone.
IsSimilarMatchDistanceOnly(file, episode) ==
    isDistanceLessThan(episodeNameSimplified(episode), fileNameSimplified(file), MaxDistance)

IsSimilarMatch(file, episode) ==
    \/ isDistanceLessThan(episodeNameSimplified(episode), fileNameSimplified(file), MaxDistance)
    \/ Includes(episodeNameSimplified(episode), fileNameSimplified(file))
    \/ Includes(fileNameSimplified(file), episodeNameSimplified(episode))

similarMatches(pool, episode) ==
    SelectSeq(pool, LAMBDA file : IsSimilarMatch(file, episode))

newFileName(seriesName, episode) ==
    StripFileName(properEpisodeName(seriesName, episode)) \o ExtMkv

newFilePath(seriesName, episode, selectedFilePath) ==
    Path(Dirname(selectedFilePath), newFileName(seriesName, episode))

\* A rename that ignores --test-run, and a run that never renames.
RenamesAlways(testRun) == TRUE
RenamesNever(testRun) == FALSE

\* if (!isTestRun) fs.renameSync(...)
Renames(testRun) == ~testRun

\* A pool that keeps the selected file, and a filter with === for !==.
RemoveSelectedKeeps(pool, selectedFilePath) == pool
RemoveSelectedInverted(pool, selectedFilePath) ==
    SelectSeq(pool, LAMBDA f : f = selectedFilePath)

\* filePaths.filter((f) => f !== selectedFilePath)
RemoveSelected(pool, selectedFilePath) ==
    SelectSeq(pool, LAMBDA f : f # selectedFilePath)

\* A direct selection of the first exact file, however many there are.
SelectsDirectlyFirst(exact) == Len(exact) >= 1

\* if (exactMatches.length == 1) selectedFilePath = exactMatches[0]
SelectsDirectly(exact) == Len(exact) = 1
\* else if (exactMatches.length > 1): the exact files are put to the chooser
AsksExact(exact) == Len(exact) > 1
\* A similar stage that asks only about two or more files.
AsksSimilarSeveral(similar) == Len(similar) > 1

\* if (similarMatches.length > 0): the similar files are put to the chooser
AsksSimilar(similar) == Len(similar) > 0
\* if (!selectedFilePath): the similar stage runs
RunsSimilar(selectedFilePath) == selectedFilePath = <<>>

\* The part of the state the loop body works on.
Cur ==
    [pc |-> pc, files |-> files, filePaths |-> filePaths, idx |-> idx,
     choices |-> choices, episodesWithNoMatches |-> episodesWithNoMatches,
     candidates |-> candidates, questions |-> questions, answers |-> answers,
     matched |-> matched, renames |-> renames]

Becomes(st) ==
    \E next \in {st} :
        /\ pc' = next.pc
        /\ files' = next.files
        /\ filePaths' = next.filePaths
        /\ idx' = next.idx
        /\ choices' = next.choices
        /\ episodesWithNoMatches' = next.episodesWithNoMatches
        /\ candidates' = next.candidates
        /\ questions' = next.questions
        /\ answers' = next.answers
        /\ matched' = next.matched
        /\ renames' = next.renames
        /\ UNCHANGED <<otherVars, isTestRun, dirExists, present, series, episodes, exitCode>>

\* A loop that passes over the episode after the one it has concluded.
ConcludeSkipsNext(st, selectedFilePath) ==
    LET episode == episodes[st.idx]
    IN IF selectedFilePath = <<>>
       THEN [st EXCEPT
                !.episodesWithNoMatches = Append(@, properEpisodeName(series, episode)),
                !.idx = @ + 2, !.pc = "loop", !.choices = <<>>]
       ELSE LET old == selectedFilePath[1]
                new == newFilePath(series, episode, old)
            IN [st EXCEPT
                   !.files = IF Renames(isTestRun) THEN RenameSync(@, old, new) ELSE @,
                   !.renames = IF Renames(isTestRun)
                               THEN Append(@, [from |-> old, to |-> new]) ELSE @,
                   !.matched = Append(@, [ep |-> st.idx, file |-> old, to |-> new]),
                   !.filePaths = RemoveSelected(@, old),
                   !.idx = @ + 2, !.pc = "loop", !.choices = <<>>]

\* A pool that loses the selected file only when the file is renamed.
ConcludeKeepsInTestRun(st, selectedFilePath) ==
    LET episode == episodes[st.idx]
    IN IF selectedFilePath = <<>>
       THEN [st EXCEPT
                !.episodesWithNoMatches = Append(@, properEpisodeName(series, episode)),
                !.idx = @ + 1, !.pc = "loop", !.choices = <<>>]
       ELSE LET old == selectedFilePath[1]
                new == newFilePath(series, episode, old)
            IN [st EXCEPT
                   !.files = IF Renames(isTestRun) THEN RenameSync(@, old, new) ELSE @,
                   !.renames = IF Renames(isTestRun)
                               THEN Append(@, [from |-> old, to |-> new]) ELSE @,
                   !.matched = Append(@, [ep |-> st.idx, file |-> old, to |-> new]),
                   !.filePaths = IF Renames(isTestRun) THEN RemoveSelected(@, old) ELSE @,
                   !.idx = @ + 1, !.pc = "loop", !.choices = <<>>]

\* Lines 175-195: record the episode as unmatched, or rename the selected file
\* and take it out of the pool; then the next episode.
Conclude(st, selectedFilePath) ==
    LET episode == episodes[st.idx]
    IN IF selectedFilePath = <<>>
       THEN [st EXCEPT
                !.episodesWithNoMatches = Append(@, properEpisodeName(series, episode)),
                !.idx = @ + 1, !.pc = "loop", !.choices = <<>>]
       ELSE LET old == selectedFilePath[1]
                new == newFilePath(series, episode, old)
            IN [st EXCEPT
                   !.files = IF Renames(isTestRun) THEN RenameSync(@, old, new) ELSE @,
                   !.renames = IF Renames(isTestRun)
                               THEN Append(@, [from |-> old, to |-> new]) ELSE @,
                   !.matched = Append(@, [ep |-> st.idx, file |-> old, to |-> new]),
                   !.filePaths = RemoveSelected(@, old),
                   !.idx = @ + 1, !.pc = "loop", !.choices = <<>>]

\* Lines 136-173: with nothing selected the similar files are computed and,
\* if there are any, put to the chooser.
SimilarStage(st, selectedFilePath) ==
    IF RunsSimilar(selectedFilePath)
    THEN LET episode == episodes[st.idx]
             similar == similarMatches(st.filePaths, episode)
             logged == [st EXCEPT !.candidates =
                           Append(@, [ep |-> st.idx, stage |-> "similar", files |-> similar])]
         IN IF AsksSimilar(similar)
            THEN [logged EXCEPT
                     !.pc = "promptSimilar", !.choices = similar,
                     !.questions = Append(@, [ep |-> st.idx, stage |-> "similar",
                                              choices |-> similar])]
            ELSE Conclude(logged, <<>>)
    ELSE Conclude(st, selectedFilePath)

\* Lines 77-134: one turn of the loop, up to its first question.
ProcessEpisode ==
    /\ pc = "loop"
    /\ idx <= Len(episodes)
    /\ LET episode == episodes[idx]
       IN IF HasNoName(episode)
          THEN Becomes([Cur EXCEPT !.idx = @ + 1])
          ELSE LET exact == exactMatches(filePaths, episode)
                   logged == [Cur EXCEPT !.candidates =
                                 Append(@, [ep |-> idx, stage |-> "exact", files |-> exact])]
               IN IF SelectsDirectly(exact)
                  THEN Becomes(SimilarStage(logged, <<exact[1]>>))
                  ELSE IF AsksExact(exact)
                       THEN Becomes([logged EXCEPT
                                !.pc = "promptExact", !.choices = exact,
                                !.questions = Append(@, [ep |-> idx, stage |-> "exact",
                                                         choices |-> exact])])
                       ELSE Becomes(SimilarStage(logged, <<>>))

\* What the chooser may answer: one of the files offered, or 'None of the above'.
Answers == {<<>>} \cup {<<choices[i]>> : i \in 1..Len(choices)}

\* The chooser answers the question about the exact files.
AnswerExact ==
    /\ pc = "promptExact"
    /\ \E selectedFile \in Answers :
          Becomes(SimilarStage([Cur EXCEPT !.answers = Append(@, selectedFile)],
                               selectedFile))

\* The chooser answers the question about the similar files.
AnswerSimilar ==
    /\ pc = "promptSimilar"
    /\ \E selectedFile \in Answers :
          Becomes(Conclude([Cur EXCEPT !.answers = Append(@, selectedFile)],
                           selectedFile))

\* Lines 198-211 and 213-216: the two reports, then 'Done'.
Report ==
    /\ pc = "loop"
    /\ idx > Len(episodes)
    /\ pc' = "done"
    /\ exitCode' = 0
    /\ UNCHANGED <<otherVars, isTestRun, dirExists, present, files, series, filePaths, episodes,
                   idx, choices, episodesWithNoMatches, candidates, questions,
                   answers, matched, renames>>

\* A catch that prints the error and lets the process end normally.
FailsExitZero ==
    /\ pc' = "failed"
    /\ exitCode' = 0
    /\ UNCHANGED <<otherVars, isTestRun, dirExists, present, files, series, filePaths,
                   episodes, idx, choices, episodesWithNoMatches, candidates, questions,
                   answers, matched, renames>>

\* Lines 217-221: an error thrown by main() is printed and the process exits 1.
Fails ==
    /\ pc' = "failed"
    /\ exitCode' = 1
    /\ UNCHANGED <<otherVars, isTestRun, dirExists, present, files, series, filePaths, episodes,
                   idx, choices, episodesWithNoMatches, candidates, questions,
                   answers, matched, renames>>

\* A check of the directory that leaves out fs.existsSync.
DirectoryOkUnchecked(directoryGiven, exists) == directoryGiven

\* Lines 31-36: a directory was given and it exists.
DirectoryOk(directoryGiven, exists) == directoryGiven /\ exists

\* Lines 27-45: the directory and the series name are read and checked.
CheckInputs ==
    /\ pc = "start"
    /\ \E directoryGiven, seriesNameGiven \in BOOLEAN :
          IF DirectoryOk(directoryGiven, dirExists) /\ seriesNameGiven
          THEN /\ pc' = "search"
               /\ UNCHANGED <<otherVars, isTestRun, dirExists, present, files, series, filePaths,
                              episodes, idx, choices, episodesWithNoMatches, exitCode,
                              candidates, questions, answers, matched, renames>>
          ELSE Fails

\* Lines 47-67: tvdb.search and the choice of one result.
Search ==
    /\ pc = "search"
    /\ \E ok \in BOOLEAN :
          IF ok
          THEN /\ pc' = "getSeries"
               /\ UNCHANGED <<otherVars, isTestRun, dirExists, present, files, series, filePaths,
                              episodes, idx, choices, episodesWithNoMatches, exitCode,
                              candidates, questions, answers, matched, renames>>
          ELSE Fails

\* Lines 69-71: tvdb.getSeries, then the scan of the directory.
GetSeries ==
    /\ pc = "getSeries"
    /\ \/ \E name \in SeriesNames :
             /\ series' = name
             /\ filePaths' = collectMkvFiles(<<>>, listing, name)
             /\ pc' = "getSeriesEpisodes"
             /\ UNCHANGED <<otherVars, isTestRun, dirExists, present, files, episodes, idx, choices,
                            episodesWithNoMatches, exitCode, candidates, questions,
                            answers, matched, renames>>
       \/ Fails

\* Lines 73-75: tvdb.getSeriesEpisodes.
GetSeriesEpisodes ==
    /\ pc = "getSeriesEpisodes"
    /\ \/ \E list \in EpisodeLists :
             /\ episodes' = list
             /\ idx' = 1
             /\ episodesWithNoMatches' = <<>>
             /\ pc' = "loop"
             /\ UNCHANGED <<otherVars, isTestRun, dirExists, present, files, series, filePaths,
                            choices, exitCode, candidates, questions, answers,
                            matched, renames>>
       \/ Fails

Init ==
    /\ pc = "start"
    /\ isTestRun \in BOOLEAN
    /\ dirExists \in BOOLEAN
    /\ present \in (IF dirExists THEN Presents ELSE {{}})
    /\ files = InitialFiles(listing)
    /\ series = <<>>
    /\ filePaths = <<>>
    /\ episodes = <<>>
    /\ idx = 1
    /\ choices = <<>>
    /\ episodesWithNoMatches = <<>>
    /\ exitCode = -1
    /\ candidates = <<>>
    /\ questions = <<>>
    /\ answers = <<>>
    /\ matched = <<>>
    /\ renames = <<>>
    /\ TextIdle
    /\ CtrlIdle
    /\ RestIdle

Next ==
    \/ CheckInputs
    \/ Search
    \/ GetSeries
    \/ GetSeriesEpisodes
    \/ ProcessEpisode
    \/ AnswerExact
    \/ AnswerSimilar
    \/ Report

Spec == Init /\ [][Next]_vars


\* ------------------------------------------------------------ tvdb.controller.ts getSeriesEpisodes
\* Longest episode list the catalog holds for the series in EpisodesSpec.
MaxFetched == 3
\* How often getSeriesEpisodes is called in EpisodesSpec.
MaxCalls == 2

SeasonNumbers == {0, 1, 2}
CatalogEpisodes == [seasonNumber : SeasonNumbers, number : EpisodeNumbers]
CatalogLists == UNION {[1..n -> CatalogEpisodes] : n \in 0..MaxFetched}
\* The catalog serves the list in pages of a size of its own choosing.
PageSizes == {1, 2}

RECURSIVE Paginate(_, _)
Paginate(list, size) ==
    IF Len(list) = 0 THEN <<>>
    ELSE IF Len(list) <= size THEN <<list>>
    ELSE <<SubSeq(list, 1, size)>> \o Paginate(SubSeq(list, size + 1, Len(list)), size)

RECURSIVE Flatten(_)
Flatten(pages) == IF pages = <<>> THEN <<>> ELSE Head(pages) \o Flatten(Tail(pages))

\* A comparator that orders the seasons by their number alone.
compareEpisodesNumeric(a, b) ==
    IF a.seasonNumber = b.seasonNumber THEN a.number - b.number
    ELSE a.seasonNumber - b.seasonNumber

\* The comparator given to episodes.sort.
compareEpisodes(a, b) ==
    IF a.seasonNumber = b.seasonNumber THEN a.number - b.number
    ELSE IF a.seasonNumber = 0 THEN 1
    ELSE IF b.seasonNumber = 0 THEN -1
    ELSE a.seasonNumber - b.seasonNumber

\* Array.prototype.sort is stable: an element goes behind every element that
\* does not compare greater than it.
RECURSIVE InsertSorted(_, _)
InsertSorted(sorted, x) ==
    IF sorted = <<>> THEN <<x>>
    ELSE IF compareEpisodes(Head(sorted), x) <= 0
         THEN <<Head(sorted)>> \o InsertSorted(Tail(sorted), x)
         ELSE <<x>> \o sorted

RECURSIVE SortEpisodes(_)
SortEpisodes(list) ==
    IF list = <<>> THEN <<>>
    ELSE InsertSorted(SortEpisodes(SubSeq(list, 1, Len(list) - 1)), list[Len(list)])

\* JSON.stringify writes the numbers of an episode in decimal digits, and
\* JSON.parse reads them back.
DigitValue(c) == CHOOSE v \in 0..9 : DigitSeq[v + 1] = c

RECURSIVE ParseInt(_)
ParseInt(digits) ==
    IF Len(digits) = 1 THEN DigitValue(digits[1])
    ELSE 10 * ParseInt(SubSeq(digits, 1, Len(digits) - 1)) + DigitValue(digits[Len(digits)])

JsonStringify(list) ==
    [i \in 1..Len(list) |->
        [seasonNumber |-> DecimalDigits(list[i].seasonNumber),
         number |-> DecimalDigits(list[i].number)]]

JsonParse(text) ==
    [i \in 1..Len(text) |->
        [seasonNumber |-> ParseInt(text[i].seasonNumber),
         number |-> ParseInt(text[i].number)]]

\* Lines 112-121: a call returns the cache file when there is one, and starts
\* the loop over the pages when there is none.
CallGetSeriesEpisodes ==
    /\ cpc = "idle"
    /\ Len(returned) < MaxCalls
    /\ IF cache # <<>>
       THEN /\ returned' = Append(returned, [from |-> "cache", list |-> JsonParse(cache[1])])
            /\ UNCHANGED <<cpc, page, fetched>>
       ELSE /\ cpc' = "fetching"
            /\ page' = 0
            /\ fetched' = <<>>
            /\ UNCHANGED returned
    /\ UNCHANGED <<restVars, mainVars, textVars, remote, cache>>

\* Lines 123-131: a page with episodes is added to the array.
FetchPage ==
    /\ cpc = "fetching"
    /\ page < Len(remote)
    /\ fetched' = fetched \o remote[page + 1]
    /\ page' = page + 1
    /\ UNCHANGED <<restVars, mainVars, textVars, cpc, remote, cache, returned>>

\* Lines 125-156: the empty page ends the loop; the array is sorted, written to
\* the cache file and returned.
FetchLastPage ==
    /\ cpc = "fetching"
    /\ page >= Len(remote)
    /\ LET sortedEpisodes == SortEpisodes(fetched)
       IN /\ cache' = <<JsonStringify(sortedEpisodes)>>
          /\ returned' = Append(returned, [from |-> "fetch", list |-> sortedEpisodes])
    /\ cpc' = "idle"
    /\ UNCHANGED <<restVars, mainVars, textVars, remote, page, fetched>>

\* Lines 182-192: a page request that fails throws, and nothing is cached.
FetchPageFails ==
    /\ cpc = "fetching"
    /\ cpc' = "failed"
    /\ UNCHANGED <<restVars, mainVars, textVars, remote, page, fetched, cache, returned>>

EpisodesInit ==
    /\ MainIdle
    /\ RestIdle
    /\ TextIdle
    /\ cpc = "idle"
    /\ remote \in {Paginate(list, size) : list \in CatalogLists, size \in PageSizes}
    /\ page = 0
    /\ fetched = <<>>
    /\ cache = <<>>
    /\ returned = <<>>

EpisodesNext ==
    \/ CallGetSeriesEpisodes
    \/ FetchPage
    \/ FetchLastPage
    \/ FetchPageFails

EpisodesSpec == EpisodesInit /\ [][EpisodesNext]_vars

\* ------------------------------------------------------------ levenshtein.ts on its own
\* Longest string argument, and largest maxDistance, of the string functions.
MaxLen == 3
MaxLimit == 4

Strings(alphabet, n) == UNION {[1..k -> alphabet] : k \in 0..n}
LevAlphabet == {"a", "b"}

\* calculateLevenshteinDistance(strA, strB)
Distance ==
    /\ fpc = "start"
    /\ out' = [distance |-> calculateLevenshteinDistance(strA, strB)]
    /\ fpc' = "distance"
    /\ UNCHANGED <<restVars, mainVars, ctrlVars, strA, strB, num>>

\* calculateLevenshteinDistance(strB, strA)
Reverse ==
    /\ fpc = "distance"
    /\ out' = [distance |-> out.distance,
               reverse |-> calculateLevenshteinDistance(strB, strA)]
    /\ fpc' = "reverse"
    /\ UNCHANGED <<restVars, mainVars, ctrlVars, strA, strB, num>>

\* isDistanceLessThan(strA, strB, num)
LessThan ==
    /\ fpc = "reverse"
    /\ out' = [distance |-> out.distance, reverse |-> out.reverse,
               lessThan |-> isDistanceLessThan(strA, strB, num)]
    /\ fpc' = "done"
    /\ UNCHANGED <<restVars, mainVars, ctrlVars, strA, strB, num>>

LevInit ==
    /\ MainIdle
    /\ RestIdle
    /\ CtrlIdle
    /\ fpc = "start"
    /\ strA \in Strings(LevAlphabet, MaxLen)
    /\ strB \in Strings(LevAlphabet, MaxLen)
    /\ num \in 0..MaxLimit
    /\ out = <<>>

LevNext == Distance \/ Reverse \/ LessThan

LevSpec == LevInit /\ [][LevNext]_vars

\* ------------------------------------------------------------ the normalization on its own
NormAlphabet == {"a", "B", "1", "!", " "}

\* s.replace(/[^a-zA-Z0-9]/g, '').toLowerCase()
Normalize ==
    /\ fpc = "start"
    /\ out' = [once |-> Simplify(strA)]
    /\ fpc' = "once"
    /\ UNCHANGED <<restVars, mainVars, ctrlVars, strA, strB, num>>

\* The same on the result.
NormalizeAgain ==
    /\ fpc = "once"
    /\ out' = [once |-> out.once, twice |-> Simplify(out.once)]
    /\ fpc' = "twice"
    /\ UNCHANGED <<restVars, mainVars, ctrlVars, strA, strB, num>>

\* Lines 102-110: the key of an episode named strA and of a file strA.mkv.
NormalizeNames ==
    /\ fpc = "twice"
    /\ out' = [once |-> out.once, twice |-> out.twice,
               episodeKey |-> episodeNameSimplified(
                                  [seasonNumber |-> 1, number |-> 1, name |-> Some(strA)]),
               fileKey |-> fileNameSimplified(Path(<<>>, strA \o ExtMkv))]
    /\ fpc' = "done"
    /\ UNCHANGED <<restVars, mainVars, ctrlVars, strA, strB, num>>

NormInit ==
    /\ MainIdle
    /\ RestIdle
    /\ CtrlIdle
    /\ fpc = "start"
    /\ strA \in Strings(NormAlphabet, MaxLen)
    /\ strB = <<>>
    /\ num = 0
    /\ out = <<>>

NormNext == Normalize \/ NormalizeAgain \/ NormalizeNames

NormSpec == NormInit /\ [][NormNext]_vars

\* ------------------------------------------------------------ the new file name on its own
FormatAlphabet == {"a", "B", "1", "!", " ", "-", "\t"}
FormatSeriesNames == {StrShow, <<"S", "-", "!", "w">>}
FormatNumbers == {1, 12}
FormatSeasons == {0, 1, 10}
FormatDirs == {<<>>, <<NameExtras>>}

\* Lines 92-98 and 184-191 for an episode named strA of series strB.
FormatName ==
    /\ fpc = "start"
    /\ \E season \in FormatSeasons, dir \in FormatDirs :
          LET episode == [seasonNumber |-> season, number |-> num, name |-> Some(strA)]
              file == Path(dir, NamePilotMkv)
          IN out' = [episode |-> episode, file |-> file,
                     to |-> newFilePath(strB, episode, file)]
    /\ fpc' = "done"
    /\ UNCHANGED <<restVars, mainVars, ctrlVars, strA, strB, num>>

FormatInit ==
    /\ MainIdle
    /\ RestIdle
    /\ CtrlIdle
    /\ fpc = "start"
    /\ strA \in Strings(FormatAlphabet, MaxLen) \ {<<>>}
    /\ strB \in FormatSeriesNames
    /\ num \in FormatNumbers
    /\ out = <<>>

FormatNext == FormatName

FormatSpec == FormatInit /\ [][FormatNext]_vars

\* ------------------------------------------------------------ the loop on short names
\* The loop of main() for one episode and a directory of two files, one of them
\* in a subdirectory, all with short names: the directory is given by its
\* entries, not as a part of Universe.
ShortNames(n) == Strings(LevAlphabet, n) \ {<<>>}
ShortListing(name1, name2) ==
    <<FileEntry(name1 \o ExtMkv), DirEntry(NameExtras, <<FileEntry(name2 \o ExtMkv)>>)>>

SimilarInit ==
    /\ pc = "loop"
    /\ isTestRun = FALSE
    /\ dirExists = TRUE
    /\ present = {}
    /\ series = StrShow
    /\ \E name1 \in ShortNames(MaxLen + 1), name2 \in ShortNames(MaxLen) :
          /\ files = InitialFiles(ShortListing(name1, name2))
          /\ filePaths = collectMkvFiles(<<>>, ShortListing(name1, name2), series)
    /\ \E name \in ShortNames(MaxLen) :
          episodes = <<[seasonNumber |-> 1, number |-> 1, name |-> Some(name)]>>
    /\ idx = 1
    /\ choices = <<>>
    /\ episodesWithNoMatches = <<>>
    /\ exitCode = -1
    /\ candidates = <<>>
    /\ questions = <<>>
    /\ answers = <<>>
    /\ matched = <<>>
    /\ renames = <<>>
    /\ TextIdle
    /\ CtrlIdle
    /\ RestIdle

SimilarNext == ProcessEpisode \/ AnswerExact \/ AnswerSimilar \/ Report

SimilarSpec == SimilarInit /\ [][SimilarNext]_vars

\* ------------------------------------------------------------ the loop under fairness
\* The directories of the runs whose end is checked: two names for one episode
\* and a similar one, or one file for each of two episodes.
LivePresents == {{1, 2, 4, 8}, {3, 5, 8}}

\* The state of main() at the first turn of the loop.
LiveInit ==
    /\ pc = "loop"
    /\ isTestRun = FALSE
    /\ dirExists = TRUE
    /\ present \in LivePresents
    /\ files = InitialFiles(listing)
    /\ series = StrShow
    /\ filePaths = collectMkvFiles(<<>>, listing, series)
    /\ episodes \in EpisodeLists
    /\ idx = 1
    /\ choices = <<>>
    /\ episodesWithNoMatches = <<>>
    /\ exitCode = -1
    /\ candidates = <<>>
    /\ questions = <<>>
    /\ answers = <<>>
    /\ matched = <<>>
    /\ renames = <<>>
    /\ TextIdle
    /\ CtrlIdle
    /\ RestIdle

LiveNext == ProcessEpisode \/ AnswerExact \/ AnswerSimilar \/ Report

\* The loop runs without interruption between two questions, the report follows
\* the loop, and the chooser answers every question it is asked.
LiveSpec == LiveInit /\ [][LiveNext]_vars /\ WF_vars(LiveNext)

\* ------------------------------------------------------------ a run and the scan of a later run
RerunAlphabet == {"S", "w", "!"}
RerunSeriesNames == Strings(RerunAlphabet, MaxLen) \ {<<>>}
RerunEpisodeNames == {StrPilot, <<"P", "!">>}

\* A directory that holds one file, at the top or in a subdirectory.
ListingOf(file) ==
    IF file.dir = <<>> THEN <<FileEntry(file.name)>>
    ELSE <<DirEntry(file.dir[1], <<FileEntry(file.name)>>)>>

\* Lines 71 and 184-193: the scan finds the file, the episode named strA is
\* matched with it, and the file is renamed.
RenameMatched ==
    /\ fpc = "start"
    /\ \E dir \in FormatDirs :
          LET pool == collectMkvFiles(<<>>, ListingOf(Path(dir, NamePilotMkv)), strB)
              episode == [seasonNumber |-> 1, number |-> num, name |-> Some(strA)]
          IN /\ pool # <<>>
             /\ out' = [file |-> pool[1],
                        to |-> newFilePath(strB, episode, pool[1]),
                        listing |-> ListingOf(newFilePath(strB, episode, pool[1]))]
    /\ fpc' = "renamed"
    /\ UNCHANGED <<restVars, mainVars, ctrlVars, strA, strB, num>>

\* Line 71 of a later run on the same directory for the same series.
ScanAgain ==
    /\ fpc = "renamed"
    /\ out' = [file |-> out.file, to |-> out.to, listing |-> out.listing,
               pool |-> collectMkvFiles(<<>>, out.listing, strB)]
    /\ fpc' = "scanned"
    /\ UNCHANGED <<restVars, mainVars, ctrlVars, strA, strB, num>>

RerunInit ==
    /\ MainIdle
    /\ RestIdle
    /\ CtrlIdle
    /\ fpc = "start"
    /\ strA \in RerunEpisodeNames
    /\ strB \in RerunSeriesNames
    /\ num \in FormatNumbers
    /\ out = <<>>

RerunNext == RenameMatched \/ ScanAgain

RerunSpec == RerunInit /\ [][RerunNext]_vars

\* ------------------------------------------------------------ a test run and the run that follows it
\* Lines 17-21 and 71-77: the program is started again without --test-run on
\* the directory as the test run left it, for the same series and episodes;
\* what the test run asked and reported is kept aside.
RunForReal ==
    /\ pc = "done"
    /\ isTestRun
    /\ predicted = <<>>
    /\ files = InitialFiles(listing)    \* line 193: the test run renamed nothing
    /\ predicted' = [questions |-> questions, answers |-> answers, matched |-> matched,
                     episodesWithNoMatches |-> episodesWithNoMatches,
                     filePaths |-> filePaths, renames |-> renames]
    /\ isTestRun' = FALSE
    /\ filePaths' = collectMkvFiles(<<>>, listing, series)
    /\ pc' = "loop"
    /\ idx' = 1
    /\ choices' = <<>>
    /\ episodesWithNoMatches' = <<>>
    /\ exitCode' = -1
    /\ candidates' = <<>>
    /\ questions' = <<>>
    /\ answers' = <<>>
    /\ matched' = <<>>
    /\ renames' = <<>>
    /\ UNCHANGED <<textVars, ctrlVars, authVars, dirExists, present, files, series, episodes>>

\* The state of a test run at the first turn of the loop.
PairInit ==
    /\ pc = "loop"
    /\ isTestRun = TRUE
    /\ dirExists = TRUE
    /\ present \in LivePresents
    /\ files = InitialFiles(listing)
    /\ series = StrShow
    /\ filePaths = collectMkvFiles(<<>>, listing, series)
    /\ episodes \in EpisodeLists
    /\ idx = 1
    /\ choices = <<>>
    /\ episodesWithNoMatches = <<>>
    /\ exitCode = -1
    /\ candidates = <<>>
    /\ questions = <<>>
    /\ answers = <<>>
    /\ matched = <<>>
    /\ renames = <<>>
    /\ TextIdle
    /\ CtrlIdle
    /\ PairIdle
    /\ AuthIdle

PairNext == ProcessEpisode \/ AnswerExact \/ AnswerSimilar \/ Report \/ RunForReal

PairSpec == PairInit /\ [][PairNext]_vars

\* ------------------------------------------------------------ tvdb.controller.ts token
\* How many request methods are called on the controller.
MaxRequests == 3
Tokens == {"t1", "t2"}
Requests == 1..MaxRequests

\* A request method is called and finds its answer in ./cache: no token is read.
CallCached ==
    /\ \E r \in Requests :
          /\ reqs[r].pc = "idle"
          /\ reqs' = [reqs EXCEPT ![r] = [pc |-> "done", token |-> Absent]]
    /\ UNCHANGED <<mainVars, textVars, ctrlVars, pairVars, storedToken, logins>>

\* Lines 58-67 and 20-37: a request method reads this.token. With _token set
\* the request goes on with it; otherwise login() is called, which sends the
\* login request before its first await.
CallRequest ==
    /\ \E r \in Requests :
          /\ reqs[r].pc = "idle"
          /\ IF storedToken # Absent
             THEN /\ reqs' = [reqs EXCEPT ![r] = [pc |-> "fetch", token |-> storedToken]]
                  /\ UNCHANGED logins
             ELSE /\ reqs' = [reqs EXCEPT ![r] = [pc |-> "login", token |-> Absent]]
                  /\ logins' = logins + 1
    /\ UNCHANGED <<mainVars, textVars, ctrlVars, pairVars, storedToken>>

\* Lines 39-55 and 63-66: the login is answered with a token, which the then
\* callback stores and hands to the request.
LoginSucceeds ==
    /\ \E r \in Requests, t \in Tokens :
          /\ reqs[r].pc = "login"
          /\ storedToken' = Some(t)
          /\ reqs' = [reqs EXCEPT ![r] = [pc |-> "fetch", token |-> Some(t)]]
    /\ UNCHANGED <<mainVars, textVars, ctrlVars, pairVars, logins>>

\* Lines 43-53: the login is refused and the request method throws.
LoginFails ==
    /\ \E r \in Requests :
          /\ reqs[r].pc = "login"
          /\ reqs' = [reqs EXCEPT ![r] = [pc |-> "failed", token |-> Absent]]
    /\ UNCHANGED <<mainVars, textVars, ctrlVars, pairVars, storedToken, logins>>

\* The request sent with the token is answered.
Respond ==
    /\ \E r \in Requests :
          /\ reqs[r].pc = "fetch"
          /\ reqs' = [reqs EXCEPT ![r].pc = "done"]
    /\ UNCHANGED <<mainVars, textVars, ctrlVars, pairVars, storedToken, logins>>

\* A controller as the constructor leaves it, with no request made yet.
AuthInit ==
    /\ MainIdle
    /\ TextIdle
    /\ CtrlIdle
    /\ PairIdle
    /\ storedToken = Absent
    /\ reqs = [r \in Requests |-> [pc |-> "idle", token |-> Absent]]
    /\ logins = 0

AuthNext == CallCached \/ CallRequest \/ LoginSucceeds \/ LoginFails \/ Respond

AuthSpec == AuthInit /\ [][AuthNext]_vars

\* ------------------------------------------------------------ the claims
MatchedFiles == {matched[i].file : i \in 1..Len(matched)}
IsNameless(episode) == episode.name = Absent \/ episode.name = Some(<<>>)
Deciding == pc \in {"loop", "promptExact", "promptSimilar"} /\ idx <= Len(episodes)
Ep(number, name) == [seasonNumber |-> 1, number |-> number, name |-> Some(name)]
PilotThenSecond == <<Ep(1, StrPilot), Ep(2, StrSecond)>>
\* The position of a file in the pool as it is now.
PoolIndex(f) == CHOOSE i \in 1..Len(filePaths) : filePaths[i] = f
\* The renames the matches made so far call for.
RenamesOfMatches == [i \in 1..Len(matched) |-> [from |-> matched[i].file, to |-> matched[i].to]]

\* C1: a matched file is out of the pool before the next episode is filtered:
\* it is in no candidate set, exact or similar, of a later episode, and no file
\* is matched to two episodes.
C1_NoDoubleMatching ==
    /\ \A i, j \in 1..Len(matched) : i # j => matched[i].file # matched[j].file
    /\ \A i \in 1..Len(matched) : matched[i].file \notin Range(filePaths)
    /\ \A i \in 1..Len(matched) : \A c \in 1..Len(candidates) :
          candidates[c].ep > matched[i].ep => matched[i].file \notin Range(candidates[c].files)

\* C1 witness: a later episode with the very key of a file matched before it
\* has had its exact files computed.
C1_Witness ==
    \E i \in 1..Len(matched) : \E c \in 1..Len(candidates) :
        /\ candidates[c].ep > matched[i].ep
        /\ candidates[c].stage = "exact"
        /\ Simplify(Basename(matched[i].file, ExtMkv))
              = Simplify(episodes[candidates[c].ep].name[1])

\* C2 (as claimed): an episode with a non-empty exact set never has a similar
\* set computed, whatever the chooser answered about the exact files.
C2_ExactPrecedence ==
    \A c, d \in 1..Len(candidates) :
        (candidates[c].stage = "exact" /\ candidates[c].files # <<>>)
            => ~(candidates[d].ep = candidates[c].ep /\ candidates[d].stage = "similar")

\* C3 (as claimed): a candidate set of exactly one file, exact or similar, is
\* resolved to that file without a question for that episode.
C3_SingleCandidateNotAsked ==
    \A c \in 1..Len(candidates) :
        Len(candidates[c].files) = 1
            => \A q \in 1..Len(questions) :
                  ~(questions[q].ep = candidates[c].ep /\ questions[q].stage = candidates[c].stage)

\* C3 (amended): an exact set of exactly one file is resolved to that file and
\* the chooser is asked nothing for that episode; a non-empty similar set is
\* always put to the chooser, also when it holds one file.
C3_SingleExactChosenDirectly ==
    /\ \A c \in 1..Len(candidates) :
          (candidates[c].stage = "exact" /\ Len(candidates[c].files) = 1)
              => /\ \E m \in 1..Len(matched) :
                       matched[m].ep = candidates[c].ep /\ matched[m].file = candidates[c].files[1]
                 /\ \A q \in 1..Len(questions) : questions[q].ep # candidates[c].ep
    /\ \A c \in 1..Len(candidates) :
          (candidates[c].stage = "similar" /\ candidates[c].files # <<>>)
              => \E q \in 1..Len(questions) :
                    questions[q] = [ep |-> candidates[c].ep, stage |-> "similar",
                                    choices |-> candidates[c].files]

\* C3 witness: one episode got its only exact file directly, another was asked
\* about its only similar file.
C3_Witness ==
    /\ \E c \in 1..Len(candidates) :
          candidates[c].stage = "exact" /\ Len(candidates[c].files) = 1
    /\ \E q \in 1..Len(questions) :
          questions[q].stage = "similar" /\ Len(questions[q].choices) = 1

\* C4 (as claimed): while episodes remain to be processed, and so while a
\* question is outstanding, the file system is as it was at the start.
C4_NoRenameWhileDeciding ==
    Deciding => (renames = <<>> /\ files = InitialFiles(listing))

\* C4 (amended): a file is renamed when its episode is resolved: the renames
\* performed so far are exactly those of the matches made so far, all of them
\* of episodes already processed, and none in a test run.
C4_RenamesFollowMatches ==
    /\ renames = (IF isTestRun THEN <<>> ELSE RenamesOfMatches)
    /\ \A m \in 1..Len(matched) : matched[m].ep < idx
    /\ (matched = <<>>) => files = InitialFiles(listing)

\* C4 witness: a question is outstanding and an earlier episode's file has
\* already been renamed.
C4_Witness ==
    /\ pc \in {"promptExact", "promptSimilar"}
    /\ renames # <<>>
    /\ files # InitialFiles(listing)

\* C5: a run started with --test-run renames nothing, from start to end.
C5_TestRunRenamesNothing ==
    isTestRun => (renames = <<>> /\ files = InitialFiles(listing))

\* C5 witness: a test run has ended with a file matched.
C5_Witness == isTestRun /\ pc = "done" /\ matched # <<>>

\* C6: at the end every file of the pool as collected is matched to exactly
\* one episode or is left in the pool, not both, and the two counts add up.
C6_Partition ==
    pc = "done" =>
        /\ \A f \in Range(pool0) : (f \in MatchedFiles) # (f \in Range(filePaths))
        /\ \A f \in Range(pool0) :
              Cardinality({i \in 1..Len(matched) : matched[i].file = f}) <= 1
        /\ MatchedFiles \cup Range(filePaths) \subseteq Range(pool0)
        /\ Len(matched) + Len(filePaths) = Len(pool0)

\* C6 witness: a run has ended with a file matched and a file left over.
C6_Witness == pc = "done" /\ matched # <<>> /\ filePaths # <<>>

\* C7: with two or more pool files of the episode's key the chooser is offered
\* exactly those files, in pool order, and a file is matched to such an episode
\* only as an answer of the chooser.
C7_AmbiguityGoesToChooser ==
    /\ pc = "promptExact" =>
          /\ Len(choices) >= 2
          /\ \A f \in Range(filePaths) :
                (f \in Range(choices))
                    <=> (Simplify(Basename(f, ExtMkv)) = Simplify(episodes[idx].name[1]))
          /\ \A i, j \in 1..Len(choices) : i < j => PoolIndex(choices[i]) < PoolIndex(choices[j])
          /\ questions[Len(questions)] = [ep |-> idx, stage |-> "exact", choices |-> choices]
    /\ \A c \in 1..Len(candidates) :
          (candidates[c].stage = "exact" /\ Len(candidates[c].files) >= 2)
              => /\ \E q \in 1..Len(questions) :
                       questions[q] = [ep |-> candidates[c].ep, stage |-> "exact",
                                       choices |-> candidates[c].files]
                 /\ \A m \in 1..Len(matched) :
                       matched[m].ep = candidates[c].ep
                           => \E a \in 1..Len(answers) :
                                 /\ questions[a].ep = matched[m].ep
                                 /\ answers[a] = <<matched[m].file>>

\* C7 witness: the chooser is being asked about several exact files while the
\* pool holds other files too.
C7_Witness == pc = "promptExact" /\ Len(filePaths) > Len(choices)

\* C8 (as claimed): an episode for which the chooser answered 'None of the
\* above' gets no file and is on the unmatched list.
C8_NoneMeansUnmatched ==
    \A a \in 1..Len(answers) :
        answers[a] = <<>>
            => /\ \A m \in 1..Len(matched) : matched[m].ep # questions[a].ep
               /\ questions[a].ep < idx
                     => \E u \in 1..Len(episodesWithNoMatches) :
                           episodesWithNoMatches[u]
                               = properEpisodeName(series, episodes[questions[a].ep])

\* C9: an episode without a name is passed over: its turn of the loop changes
\* neither the pool, the matches, the unmatched list, the questions nor the
\* file system, and no match or question ever names it.
C9_NamelessEpisodeSkipped ==
    [][ /\ (pc = "loop" /\ idx <= Len(episodes) /\ IsNameless(episodes[idx]))
            => /\ filePaths' = filePaths
               /\ matched' = matched
               /\ episodesWithNoMatches' = episodesWithNoMatches
               /\ questions' = questions
               /\ candidates' = candidates
               /\ files' = files
               /\ pc' = "loop"
               /\ idx' = idx + 1
        /\ \A m \in 1..Len(matched') : ~IsNameless(episodes'[matched'[m].ep])
        /\ \A q \in 1..Len(questions') : ~IsNameless(episodes'[questions'[q].ep])
      ]_vars

\* C9 witness: with files in the pool, an episode with no name and one with an
\* empty name have both been passed.
C9_Witness ==
    /\ pc = "loop"
    /\ filePaths # <<>>
    /\ \E k \in 1..(idx - 1) : k <= Len(episodes) /\ episodes[k].name = Absent
    /\ \E k \in 1..(idx - 1) : k <= Len(episodes) /\ episodes[k].name = Some(<<>>)

\* C10 (as claimed): with "Show S01E01 Pilot.mkv" and "Show S01E02 Second.mkv"
\* in the directory of series Show, both episodes are matched to them.
C10_ShowFilesMatched ==
    (pc = "done" /\ series = StrShow /\ present = {6, 7, 8} /\ episodes = PilotThenSecond)
        => /\ Len(matched) = 2
           /\ episodesWithNoMatches = <<>>

\* C10 (amended): "Pilot.mkv" and "Second.mkv" are matched to the two episodes
\* by the exact stage, with no question, and renamed to "Show S01E01 Pilot.mkv"
\* and "Show S01E02 Second.mkv"; files already so named never enter the pool.
C10_PilotSecondMatched ==
    /\ (pc = "done" /\ series = StrShow /\ present = {3, 5, 8} /\ episodes = PilotThenSecond)
          => /\ pool0 = <<Path(<<>>, NamePilotMkv), Path(<<>>, NameSecondMkv)>>
             /\ matched = << [ep |-> 1, file |-> Path(<<>>, NamePilotMkv),
                              to |-> Path(<<>>, NameShowE01)],
                             [ep |-> 2, file |-> Path(<<>>, NameSecondMkv),
                              to |-> Path(<<>>, NameShowE02)] >>
             /\ candidates = << [ep |-> 1, stage |-> "exact",
                                 files |-> <<Path(<<>>, NamePilotMkv)>>],
                                [ep |-> 2, stage |-> "exact",
                                 files |-> <<Path(<<>>, NameSecondMkv)>>] >>
             /\ questions = <<>>
             /\ episodesWithNoMatches = <<>>
             /\ filePaths = <<>>
    /\ (pc = "done" /\ series = StrShow /\ present = {6, 7, 8} /\ episodes = PilotThenSecond)
          => /\ pool0 = <<>>
             /\ matched = <<>>
             /\ renames = <<>>
             /\ Len(episodesWithNoMatches) = 2

\* C10 witness: the run over "Pilot.mkv" and "Second.mkv" has ended.
C10_Witness ==
    pc = "done" /\ series = StrShow /\ present = {3, 5, 8} /\ episodes = PilotThenSecond
NamedEpisodes == {k \in 1..Len(episodes) : ~IsNameless(episodes[k])}
Scanned == pc \in {"getSeriesEpisodes", "loop", "promptExact", "promptSimilar", "done"}
InLoop == pc \in {"loop", "promptExact", "promptSimilar", "done"}

\* C11 (as claimed): with the directory missing, or with a scan that found no
\* file, the run never reaches the loop over the episodes.
C11_InvalidInputAborts ==
    (~dirExists \/ (Scanned /\ pool0 = <<>>))
        => (~InLoop /\ candidates = <<>> /\ questions = <<>> /\ renames = <<>>)

\* C11 (amended): a missing directory ends the run with exit code 1 before any
\* episode is filtered, any question about files asked or any file renamed; a
\* scan that finds no file is no error: the run ends normally with every named
\* episode unmatched, no question asked and nothing renamed.
C11_MissingDirectoryAborts ==
    /\ ~dirExists
          => /\ pc \in {"start", "failed"}
             /\ pc = "failed" => exitCode = 1
             /\ candidates = <<>> /\ questions = <<>> /\ renames = <<>>
             /\ files = InitialFiles(listing)
    /\ (pc = "done" /\ pool0 = <<>>)
          => /\ exitCode = 0
             /\ questions = <<>> /\ matched = <<>> /\ renames = <<>>
             /\ Len(episodesWithNoMatches) = Cardinality(NamedEpisodes)

\* C11 witness: the run has failed on a directory that does not exist.
C11_Witness == ~dirExists /\ pc = "failed" /\ exitCode = 1
\* main() is about to call the catalog: search, getSeries or getSeriesEpisodes.
AtCatalogCall == pc \in {"search", "getSeries", "getSeriesEpisodes"}

\* C12: every call to the catalog is made with no file renamed yet, none is
\* made once a file has been renamed, and a run that fails ends with exit code
\* 1 and the file system as it was.
C12_CatalogBeforeRenames ==
    [][ /\ AtCatalogCall => (renames = <<>> /\ files = InitialFiles(listing))
        /\ renames # <<>> => ~AtCatalogCall'
        /\ (AtCatalogCall /\ pc' = "failed")
              => (exitCode' = 1 /\ renames' = <<>> /\ files' = InitialFiles(listing))
      ]_vars

\* C12 witness: getSeriesEpisodes has failed, after the scan found files.
C12_Witness == pc = "failed" /\ series # <<>> /\ pool0 # <<>> /\ exitCode = 1
\* Season ascending with season 0 last, episode number ascending in a season.
CanonicalOrder(list) ==
    \A i, j \in 1..Len(list) :
        i < j => /\ list[i].seasonNumber = 0 => list[j].seasonNumber = 0
                 /\ (list[i].seasonNumber # 0 /\ list[j].seasonNumber # 0)
                       => list[i].seasonNumber <= list[j].seasonNumber
                 /\ list[i].seasonNumber = list[j].seasonNumber
                       => list[i].number <= list[j].number
Count(list, e) == Cardinality({i \in 1..Len(list) : list[i] = e})

\* C13: what getSeriesEpisodes returns, fetched or read from the cache it
\* wrote, holds the episodes the catalog served in canonical order.
C13_CanonicalOrder ==
    \A r \in 1..Len(returned) :
        /\ CanonicalOrder(returned[r].list)
        /\ \A e \in CatalogEpisodes : Count(returned[r].list, e) = Count(Flatten(remote), e)

\* C13 witness: a list the catalog served with a season 0 episode ahead of
\* another season's has been returned from the fetch and from the cache.
C13_Witness ==
    /\ Len(returned) = 2
    /\ returned[1].from = "fetch"
    /\ returned[2].from = "cache"
    /\ Len(remote) >= 2
    /\ \E i, j \in 1..Len(Flatten(remote)) :
          i < j /\ Flatten(remote)[i].seasonNumber = 0 /\ Flatten(remote)[j].seasonNumber = 2
\* The strings one insertion, deletion or substitution away from s, no longer
\* than cap.
Edits(s, cap) ==
    {SubSeq(s, 1, i - 1) \o SubSeq(s, i + 1, Len(s)) : i \in 1..Len(s)}
    \cup {SubSeq(s, 1, i - 1) \o <<c>> \o SubSeq(s, i + 1, Len(s)) :
             i \in 1..Len(s), c \in LevAlphabet}
    \cup (IF Len(s) < cap
          THEN {SubSeq(s, 1, i) \o <<c>> \o SubSeq(s, i + 1, Len(s)) :
                   i \in 0..Len(s), c \in LevAlphabet}
          ELSE {})

\* The least number of edits that lead from the strings reached to the target.
RECURSIVE EditSteps(_, _, _, _)
EditSteps(reached, target, k, cap) ==
    IF target \in reached THEN k
    ELSE EditSteps(reached \cup UNION {Edits(s, cap) : s \in reached}, target, k + 1, cap)

EditDistance(s, t) == EditSteps({s}, t, 0, IF Len(s) > Len(t) THEN Len(s) ELSE Len(t))

\* C14 (as claimed): with maxDistance 0, isDistanceLessThan is false for
\* different strings and true for identical ones.
C14_ZeroIsEquality ==
    (fpc = "done" /\ num = 0) => (out.lessThan <=> (strA = strB))

\* C14 (amended): with maxDistance 0, isDistanceLessThan is false for every
\* pair of strings, identical ones included.
C14_ZeroIsFalse ==
    (fpc = "done" /\ num = 0) => ~out.lessThan

\* C14 witness: two identical non-empty strings were compared with maxDistance 0.
C14_Witness == fpc = "done" /\ num = 0 /\ strA = strB /\ strA # <<>>

\* C15: for maxDistance >= 1 the result is that of comparing the distance with
\* maxDistance; the test of the lengths changes nothing.
C15_ShortCircuitSound ==
    (fpc = "done" /\ num >= 1)
        => /\ out.lessThan <=> (out.distance < num)
           /\ out.lessThan <=> \/ strA = strB
                               \/ /\ Abs(Len(strA) - Len(strB)) < num
                                  /\ out.distance < num

\* C15 witness: different strings whose lengths alone decided the result.
C15_Witness ==
    /\ fpc = "done"
    /\ num >= 1
    /\ strA # strB
    /\ Abs(Len(strA) - Len(strB)) >= num

\* C16: the two-row computation returns the least number of insertions,
\* deletions and substitutions that turn the first string into the second.
C16_IsEditDistance ==
    fpc # "start" => out.distance = EditDistance(strA, strB)

\* C16 witness: strings of different lengths, two characters or more each, at
\* distance two or more.
C16_Witness ==
    /\ fpc # "start"
    /\ Len(strA) >= 2 /\ Len(strB) >= 2 /\ Len(strA) # Len(strB)
    /\ out.distance >= 2

\* C17: the distance from a to b is the distance from b to a.
C17_Symmetric ==
    fpc \in {"reverse", "done"} => out.distance = out.reverse

\* C17 witness: an empty string and a longer one were measured both ways.
C17_Witness == fpc = "reverse" /\ strB = <<>> /\ Len(strA) >= 2

\* C18: a string is at distance 0 from itself, and the empty string is at
\* distance length(s) from s.
C18_Boundaries ==
    fpc # "start" => /\ strA = strB => out.distance = 0
                     /\ strA = <<>> => out.distance = Len(strB)

\* C18 witness: the empty string was measured against a longer one.
C18_Witness == fpc # "start" /\ strA = <<>> /\ Len(strB) >= 2
\* C19: normalizing a normalized string changes nothing, the result holds
\* lower-case letters and digits only, and an episode named s and a file
\* s.mkv get the same key.
C19_NormalizeIdempotent ==
    /\ fpc \in {"twice", "done"}
          => /\ out.twice = out.once
             /\ \A i \in 1..Len(out.once) : out.once[i] \in Lower \cup Digit
    /\ fpc = "done" => (out.episodeKey = out.once /\ out.fileKey = out.once)

\* C19 witness: a string with upper case and two characters to strip has been
\* normalized twice.
C19_Witness ==
    /\ fpc = "done"
    /\ Len(strA) - Len(out.once) >= 2
    /\ \E i \in 1..Len(strA) : strA[i] \in Upper

PadTwo(n) == IF n < 10 THEN <<"0", DigitSeq[n + 1]>> ELSE DecimalDigits(n)
\* "{series} S{season}E{episode} {displayName}" for the episode formatted.
CanonicalName ==
    strB \o <<" ", "S">> \o PadTwo(out.episode.seasonNumber) \o <<"E">>
        \o PadTwo(out.episode.number) \o <<" ">> \o strA
Keep(s, kept) == SelectSeq(s, LAMBDA c : c \in kept)

\* C20 (as claimed): the new path is in the file's directory and its name is
\* the canonical name without the characters that are no letter, digit, space
\* or hyphen, followed by .mkv.
C20_NameKeepsSpaceOnly ==
    fpc = "done"
        => /\ out.to.dir = out.file.dir
           /\ out.to.name
                 = Keep(CanonicalName, Upper \cup Lower \cup Digit \cup {" ", "-"}) \o ExtMkv

\* C20 (amended): as claimed, but every whitespace character (not the space
\* alone) is kept.
C20_NameKeepsWhitespace ==
    fpc = "done"
        => /\ out.to.dir = out.file.dir
           /\ out.to.name
                 = Keep(CanonicalName, Upper \cup Lower \cup Digit \cup Whitespace \cup {"-"})
                       \o ExtMkv

\* C20 witness: a file of a subdirectory got the name of an episode with a
\* one-digit season, whose name holds a character that is stripped.
C20_Witness ==
    /\ fpc = "done"
    /\ out.file.dir # <<>>
    /\ out.episode.seasonNumber < 10
    /\ \E i \in 1..Len(strA) : strA[i] = "!"
NoDuplicates(s) == \A i, j \in 1..Len(s) : s[i] = s[j] => i = j
Position(t, x) == CHOOSE k \in 1..Len(t) : t[k] = x
\* s has no duplicates and is a subsequence of the duplicate-free t.
KeepsOrderOf(s, t) ==
    /\ NoDuplicates(s)
    /\ NoDuplicates(t)
    /\ \A i \in 1..Len(s) : s[i] \in Range(t)
    /\ \A i, j \in 1..Len(s) : i < j => Position(t, s[i]) < Position(t, s[j])
NormalizedKey(s) == ToLowerCase(Keep(s, Upper \cup Lower \cup Digit))
\* The candidate sets the step computes.
ComputedNow == {candidates'[k] : k \in (Len(candidates) + 1)..Len(candidates')}

\* C21: every candidate set a step computes is a duplicate-free subsequence of
\* the pool the step started from, and an exact set holds precisely the pool
\* files whose normalized base name equals the normalized episode name.
C21_CandidatesFromPool ==
    [][\A c \in ComputedNow :
          /\ KeepsOrderOf(c.files, filePaths)
          /\ c.stage = "exact"
                => \A f \in Range(filePaths) :
                      f \in Range(c.files)
                          <=> NormalizedKey(Basename(f, ExtMkv))
                                  = NormalizedKey(episodes[c.ep].name[1])]_vars

\* C21 witness: the first episode was matched with a file that is similar to
\* the second episode too, and the second episode's candidates, taken from the
\* pool without that file, are not empty.
C21_Witness ==
    /\ Len(episodes) = 2
    /\ matched # <<>>
    /\ matched[1].ep = 1
    /\ ~IsNameless(episodes[2])
    /\ IsSimilarMatch(matched[1].file, episodes[2])
    /\ \E k \in 1..Len(candidates) :
          /\ candidates[k].ep = 2
          /\ Len(candidates[k].files) >= 2
          /\ candidates[k].stage = "exact"
Contains(s, part) ==
    \E i \in 0..(Len(s) - Len(part)) : SubSeq(s, i + 1, i + Len(part)) = part
\* k and f are within distance 3, or one contains the other.
SimilarKeys(k, f) == isDistanceLessThan(k, f, 3) \/ Contains(k, f) \/ Contains(f, k)
SimilarOf(pool, name) ==
    SelectSeq(pool, LAMBDA f : SimilarKeys(NormalizedKey(name),
                                           NormalizedKey(Basename(f, ExtMkv))))

\* C22: a similar set a step computes holds exactly the pool files whose key
\* is within distance 3 of the episode's key, contains it or is contained in
\* it, in pool order, and a similar question offers these files and no other.
C22_SimilarSet ==
    [][/\ \A c \in ComputedNow :
             c.stage = "similar"
                => c.files = SimilarOf(filePaths, episodes[c.ep].name[1])
       /\ pc' = "promptSimilar"
             => /\ choices' = SimilarOf(filePaths, episodes[idx].name[1])
                /\ questions'[Len(questions')].choices = choices']_vars

\* C22 witness: a similar question offers two files, the first for containing
\* the key only and the second for its distance only.
C22_Witness ==
    /\ pc = "promptSimilar"
    /\ Len(choices) = 2
    /\ LET k == NormalizedKey(episodes[idx].name[1])
           f1 == NormalizedKey(Basename(choices[1], ExtMkv))
           f2 == NormalizedKey(Basename(choices[2], ExtMkv))
       IN /\ Contains(f1, k) /\ ~isDistanceLessThan(k, f1, 3)
          /\ isDistanceLessThan(k, f2, 3) /\ ~Contains(f2, k) /\ ~Contains(k, f2)
Asking == pc \in {"promptExact", "promptSimilar"}
\* What a step that ends the turn of episode idx adds to the results.
Settles ==
    \/ /\ IsNameless(episodes[idx])
       /\ UNCHANGED <<matched, episodesWithNoMatches>>
    \/ /\ ~IsNameless(episodes[idx])
       /\ Len(matched') = Len(matched) + 1
       /\ SubSeq(matched', 1, Len(matched)) = matched
       /\ matched'[Len(matched')].ep = idx
       /\ matched'[Len(matched')].file \in Range(filePaths)
       /\ UNCHANGED episodesWithNoMatches
    \/ /\ ~IsNameless(episodes[idx])
       /\ Len(episodesWithNoMatches') = Len(episodesWithNoMatches) + 1
       /\ UNCHANGED matched

\* C23: once in the loop a run reaches the end; it takes the episodes one
\* by one in order, each settled once (skipped, matched or unmatched), never
\* has more than one question open, and does not fail on the way.
C23_LoopTerminates ==
    /\ (pc = "loop") ~> (pc = "done")
    /\ [](Len(questions) - Len(answers) = IF Asking THEN 1 ELSE 0)
    /\ [](pc = "done" => idx = Len(episodes) + 1)
    /\ [][InLoop
            => /\ pc' # "failed"
               /\ \/ idx' = idx /\ UNCHANGED <<matched, episodesWithNoMatches>>
                  \/ idx' = idx + 1 /\ idx <= Len(episodes) /\ Settles]_vars

\* C23 witness: a run is done with two episodes, one of them without a name,
\* after a question that was answered.
C23_Witness ==
    /\ pc = "done"
    /\ Len(episodes) = 2
    /\ \E k \in 1..2 : IsNameless(episodes[k])
    /\ answers # <<>>
\* C24: no two renames of a run have the same destination path.
C24_DistinctDestinations ==
    \A i, j \in 1..Len(renames) : renames[i].to = renames[j].to => i = j
\* C25: a file a run has renamed is not in the pool of a later run on the same
\* directory for the same series.
C25_RenamedFilesExcluded == fpc = "scanned" => out.to \notin Range(out.pool)
AgreeUpTo(n) ==
    /\ n <= Len(answers)
    /\ n <= Len(predicted.answers)
    /\ SubSeq(answers, 1, n) = SubSeq(predicted.answers, 1, n)
Pairs(m) == [i \in 1..Len(m) |-> [ep |-> m[i].ep, file |-> m[i].file]]

\* C26: as long as the chooser answers the run as it answered the test run,
\* the run asks the questions the test run asked, and with the same answers
\* throughout it ends with the same matched pairs, unmatched episodes and
\* unmatched files; the test run renamed nothing and the run renames what it
\* matched.
C26_TestRunPredicts ==
    predicted # <<>>
        => /\ \A k \in 1..Len(questions) :
                 AgreeUpTo(k - 1)
                    => k <= Len(predicted.questions) /\ questions[k] = predicted.questions[k]
           /\ pc = "done" /\ answers = predicted.answers
                 => /\ questions = predicted.questions
                    /\ Pairs(matched) = Pairs(predicted.matched)
                    /\ episodesWithNoMatches = predicted.episodesWithNoMatches
                    /\ filePaths = predicted.filePaths
                    /\ predicted.renames = <<>>
                    /\ Len(renames) = Len(matched)

\* C26 witness: a run that follows a test run is done after the same answers,
\* with a question asked, a file renamed, an episode and a file left over.
C26_Witness ==
    /\ predicted # <<>>
    /\ pc = "done"
    /\ answers = predicted.answers
    /\ answers # <<>>
    /\ renames # <<>>
    /\ episodesWithNoMatches # <<>>
    /\ filePaths # <<>>
\* C27: a controller sends at most one login request, whatever the order of
\* the calls and the answers, and a request made when a token is stored uses
\* that token and sends no login.
C27_LogsInOnce ==
    /\ [](logins <= 1)
    /\ [][\A r \in Requests :
             storedToken # Absent /\ reqs[r].pc = "idle" /\ reqs'[r].pc \notin {"idle", "done"}
                => reqs'[r] = [pc |-> "fetch", token |-> storedToken] /\ logins' = logins]_vars
====
